---- MODULE Spec2Model ----
(***************************************************************************)
(* Loan payment calculator (src/app.py): the amortization schedule, the    *)
(* car depreciation series and the negative-equity detection.              *)
(*                                                                         *)
(* Numbers.  The program computes in binary floating point and rounds to   *)
(* two decimals only what it stores in a row.  Here a carried amount of    *)
(* money is an integer number of 1/MU dollars, a rate or growth factor is  *)
(* an integer number of 1/U, and every product or quotient is rounded to   *)
(* the nearest unit, as a float operation rounds to the nearest float.     *)
(* A stored (rounded) amount is an integer number of cents.  Form inputs   *)
(* are whole dollars, whole years, and the annual rate in tenths of a      *)
(* percent (the step of the rate widget).                                  *)
(***************************************************************************)
EXTENDS Integers, Sequences, FiniteSets, TLC

\* Units of carried money per dollar, and units of a rate per 1.
MU == 10^5
U == 10^9
Cent == MU \div 100

\* ------------------------------------------------------------- bounds
\* Loan terms run over 0..MaxYears years; the extra payment over
\* 0..MaxExtraSteps steps of the widget (50 dollars each).
MaxYears == 2
MaxExtraSteps == 2

\* ---------------------------------------------------------- arithmetic
Abs(x) == IF x < 0 THEN -x ELSE x
Sign(x) == IF x < 0 THEN -1 ELSE 1

\* r + s modulo d, with the carry, for 0 <= r, s < d, without ever forming
\* a number wider than d.
AddMod(r, s, d) == IF r >= d - s THEN <<1, r - (d - s)>> ELSE <<0, r + s>>

\* <<q, r>> with a*k = q*d + r and 0 <= r < d, for a >= 0, d > 0 and a
\* small multiplier k, by doubling.
RECURSIVE SmallMulQR(_, _, _)
SmallMulQR(a, k, d) ==
    IF k = 0 THEN <<0, 0>>
    ELSE LET h == SmallMulQR(a, k \div 2, d)
             dbl == AddMod(h[2], h[2], d)
             odd == AddMod(dbl[2], a % d, d)
         IN  IF k % 2 = 0 THEN <<2 * h[1] + dbl[1], dbl[2]>>
             ELSE <<2 * h[1] + dbl[1] + (a \div d) + odd[1], odd[2]>>

\* <<q, r>> with a*b = q*d + r and 0 <= r < d, for a, b >= 0 and d > 0:
\* long multiplication over the base-1000 digits of b, so that no
\* intermediate value is wider than the result.
RECURSIVE MulDivQR(_, _, _)
MulDivQR(a, b, d) ==
    IF b < 1000 THEN SmallMulQR(a, b, d)
    ELSE LET h == MulDivQR(a, b \div 1000, d)
             shifted == SmallMulQR(h[2], 1000, d)
             low == SmallMulQR(a, b % 1000, d)
             sum == AddMod(shifted[2], low[2], d)
         IN  <<h[1] * 1000 + shifted[1] + low[1] + sum[1], sum[2]>>

\* a*b/d rounded to the nearest integer (a of either sign, b >= 0, d > 0):
\* one float multiplication or division.
MulDiv(a, b, d) ==
    LET h == MulDivQR(Abs(a), b, d)
    IN  Sign(a) * (IF h[2] >= d - h[2] THEN h[1] + 1 ELSE h[1])

\* Base-1000 digit i of x >= 0.
Digit(x, i) == (x \div 1000^i) % 1000

\* The sum of a's digit i times b's digit k-i: column k of the long
\* multiplication of a by b.
Column(a, b, k) ==
    LET lo == IF k > 3 THEN k - 3 ELSE 0
        hi == IF k > 3 THEN 3 ELSE k
        P(i) == Digit(a, i) * Digit(b, k - i)
    IN  (IF lo <= 0 /\ 0 <= hi THEN P(0) ELSE 0) + (IF lo <= 1 /\ 1 <= hi THEN P(1) ELSE 0)
        + (IF lo <= 2 /\ 2 <= hi THEN P(2) ELSE 0) + (IF lo <= 3 /\ 3 <= hi THEN P(3) ELSE 0)

\* a*b/U rounded to the nearest integer, for a, b >= 0: the same value as
\* MulDiv(a, b, U), by long multiplication in base 1000 (U = 1000^3).
MulU(a, b) ==
    LET t0 == Column(a, b, 0)
        t1 == Column(a, b, 1) + t0 \div 1000
        t2 == Column(a, b, 2) + t1 \div 1000
    IN  Column(a, b, 3) + t2 \div 1000 + (IF t2 % 1000 >= 500 THEN 1 ELSE 0)
        + (IF Column(a, b, 4) = 0 THEN 0 ELSE 1000 * Column(a, b, 4))
        + (IF Column(a, b, 5) = 0 THEN 0 ELSE 1000000 * Column(a, b, 5))
        + (IF Column(a, b, 6) = 0 THEN 0 ELSE U * Column(a, b, 6))

\* a times the factor or rate f (in units of 1/U), a of either sign.
Times(a, f) == Sign(a) * MulU(Abs(a), f)

\* x ** n for a factor x in units of 1/U.
RECURSIVE Pow(_, _)
Pow(x, n) ==
    IF n = 0 THEN U
    ELSE LET h == Pow(x, n \div 2)
             sq == Times(h, h)
         IN  IF n % 2 = 1 THEN Times(sq, x) ELSE sq

\* Mutant of Round2: the amount cut to whole cents instead of rounded.
Truncate2(x) == Sign(x) * (Abs(x) \div Cent)

\* round(x, 2): carried money to cents, ties to the even cent.
Round2(x) ==
    LET q == Abs(x) \div Cent
        r == Abs(x) % Cent
        up == 2 * r > Cent \/ (2 * r = Cent /\ q % 2 = 1)
    IN  Sign(x) * (IF up THEN q + 1 ELSE q)

Min(a, b) == IF a <= b THEN a ELSE b

\* --------------------------------------- calculate_amortization_schedule
\* Line 10: monthly_rate = annual_rate / 12 / 100, annual_rate in tenths of
\* a percent.
MonthlyRate(annual_rate) == MulDiv(annual_rate, U \div 1000, 12)

\* The division of line 13 is by zero exactly when months = 0: the growth
\* factor is then 1.0 (rate not 0), or the divisor is months itself (rate 0).
DividesByZero(rate, nmonths) ==
    IF rate # 0 THEN Pow(U + rate, nmonths) - U = 0 ELSE nmonths = 0

\* Mutant of BasePayment: the base spread over the months with no interest.
BasePaymentFlat(base, rate, nmonths) == MulDiv(base, 1, nmonths)

\* Line 13: the level payment on base = principal - balloon_payment.
BasePayment(base, rate, nmonths) ==
    IF rate # 0
    THEN LET growth == Pow(U + rate, nmonths)
         IN  MulDiv(Times(base, Times(rate, growth)), U, growth - U)
    ELSE MulDiv(base, 1, nmonths)

\* Mutant of WithExtra: the extra payment taken off the payment.
WithExtraSubtracted(payment, extra) == payment - extra

\* Line 14.
WithExtra(payment, extra) == payment + extra

\* Line 22.
Interest(bal, rate) == Times(bal, rate)

\* Mutant of PrincipalPaid: the payment applied in full, past the balance.
PrincipalPaidUncapped(payment, interest, bal) == payment - interest

\* Line 23.
PrincipalPaid(payment, interest, bal) == Min(payment - interest, bal)

\* Mutant of Row: the principal and interest columns exchanged.
RowSwapped(m, payment, principal_paid, interest, bal) ==
    [Month |-> m, Date |-> 30 * (m - 1),
     Payment |-> Round2(payment), PrincipalPaid |-> Round2(interest),
     InterestPaid |-> Round2(principal_paid), RemainingBalance |-> Round2(bal)]

\* Lines 28-35: one row of the schedule, amounts in cents, the date in days
\* after start_date.
Row(m, payment, principal_paid, interest, bal) ==
    [Month |-> m, Date |-> 30 * (m - 1),
     Payment |-> Round2(payment), PrincipalPaid |-> Round2(principal_paid),
     InterestPaid |-> Round2(interest), RemainingBalance |-> Round2(bal)]

\* Mutant of PaidOff: a balance of exactly zero does not end the loop.
PaidOffStrict(bal) == bal < 0

\* Line 37.
PaidOff(bal) == bal <= 0

\* Mutant of BalloonDue: the balloon row appended whatever the balance.
BalloonDueAlways(balloon, bal) == balloon > 0

\* Line 40.
BalloonDue(balloon, bal) == balloon > 0 /\ bal > 0

\* Lines 43-50: the balloon row, after `m` periodic months.
BalloonRow(m, balloon, bal) ==
    [Month |-> m + 1, Date |-> 30 * m,
     Payment |-> Round2(balloon), PrincipalPaid |-> Round2(balloon),
     InterestPaid |-> 0, RemainingBalance |-> Round2(bal - balloon)]

\* Line 54: df["Payment"].sum() over rows i..j.
RECURSIVE SumPayment(_, _, _)
SumPayment(s, i, j) ==
    IF i > j THEN 0
    ELSE IF i = j THEN s[i].Payment
    ELSE SumPayment(s, i, (i + j) \div 2) + SumPayment(s, (i + j) \div 2 + 1, j)

\* ----------------------------------------- calculate_car_value_over_time
\* The largest factor x = lo + k*step + ... with x ** 12 <= c, one decimal
\* digit k at a time.
RECURSIVE Root12(_, _, _)
Root12(lo, step, c) ==
    IF step = 0 THEN lo
    ELSE LET k == CHOOSE j \in 0..9 :
                    /\ Pow(lo + j * step, 12) <= c
                    /\ j < 9 => Pow(lo + (j + 1) * step, 12) > c
         IN  Root12(lo + k * step, step \div 10, c)

\* The positions of the depreciation slider that the model draws from.
DepreciationRates == {15, 30}

\* Line 61: (1 - annual_depreciation / 100) ** (1 / 12), per slider position.
monthly_depreciation ==
    [d \in DepreciationRates |-> Root12(0, U \div 10, U - d * (U \div 100))]

\* Line 63.
Depreciated(val, annual_depreciation) ==
    Times(val, monthly_depreciation[annual_depreciation])

\* ------------------------------------------------ negative equity (script)
\* Line 168.
NegativeEquity(remaining_balance, estimated_car_value) ==
    remaining_balance > estimated_car_value

\* Lines 164-168: the two columns added to the schedule of a car loan.
WithCarColumns(frame, car_values) ==
    [i \in 1..Len(frame) |->
        frame[i] @@
        [EstimatedCarValue |-> car_values[i],
         NegativeEquity |-> NegativeEquity(frame[i].RemainingBalance, car_values[i])]]

IsNegative(row) == row.NegativeEquity

\* Mutant of EquityMessage: the warning names the last such row.
EquityMessageLast(frame) ==
    LET neg == SelectSeq(frame, IsNegative)
    IN  IF neg # <<>>
        THEN [kind |-> "warning", Month |-> neg[Len(neg)].Month,
              Date |-> neg[Len(neg)].Date]
        ELSE [kind |-> "success"]

\* Lines 170-174: the warning names the first row of df[df["Negative Equity"]].
EquityMessage(frame) ==
    LET neg == SelectSeq(frame, IsNegative)
    IN  IF neg # <<>>
        THEN [kind |-> "warning", Month |-> neg[1].Month, Date |-> neg[1].Date]
        ELSE [kind |-> "success"]

NoEquityMessage == [kind |-> "none"]

\* ------------------------------------------------------------- the form
ExtraPayments == {50 * k : k \in 0..MaxExtraSteps}

\* Lines 140-141: a home loan has neither a balloon payment nor a
\* depreciation rate.
CarWidgets(rates) == [balloon_payment : {0, 500, 1000}, depreciation_rate : rates]

HomeWidgets == [balloon_payment : {0}, depreciation_rate : {0}]

TypeWidgets(type, rates) ==
    IF type = "Car Loan" THEN CarWidgets(rates) ELSE HomeWidgets

\* Lines 129-142: what the widgets may hold.  The first family is small
\* loans over every combination, at the slider's default depreciation; the
\* second is a 19000 loan at 5.0% over 5 years.  annual_rate 0 and years 0 are below the widgets' minimum: they
\* are arguments the function accepts.
SmallLoans ==
    [loan_type : {"Car Loan", "Home Loan"}, total_price : {1000},
     down_payment : {0, 1000, 2000}, annual_rate : {0, 120},
     years : 0..MaxYears, extra_payment : ExtraPayments, fees : {0, 50}]

Scenario ==
    [loan_type : {"Car Loan", "Home Loan"}, total_price : {20000},
     down_payment : {1000}, annual_rate : {50},
     years : {5}, extra_payment : ExtraPayments, fees : {0}]

Forms ==
    UNION ({ { t @@ w : w \in TypeWidgets(t.loan_type, {15}) } : t \in SmallLoans }
           \cup
           { { t @@ [balloon_payment |-> 0, depreciation_rate |-> d] :
                 d \in IF t.loan_type = "Car Loan" THEN DepreciationRates ELSE {0} } :
             t \in Scenario })

NoPrevious == [shown |-> FALSE]

VARIABLES
    form,            \* the widgets' values
    pc,              \* where the run of the script is: "form" (button not
                     \* pressed), "loop", "balloon", "returned", "car",
                     \* "shown", or "ZeroDivisionError"
    monthly_rate,    \* locals of calculate_amortization_schedule
    monthly_payment,
    balance,
    month,
    schedule,
    total_interest,
    carried,         \* history: the unrounded balance after each row
    df,              \* the returned frame, total and month
    total_paid,
    months,
    value,           \* locals of calculate_car_value_over_time
    values,
    equity,          \* the negative-equity message
    previous         \* history: the result last shown, kept while only the
                     \* extra payment is edited

locals == <<monthly_rate, monthly_payment, balance, month, schedule,
            total_interest, carried>>
results == <<df, total_paid, months>>
car == <<value, values, equity>>
vars == <<form, pc, locals, results, car, previous>>

\* Line 133.
principal == form.total_price - form.down_payment

\* Line 11.
nmonths == form.years * 12

Cleared ==
    /\ monthly_rate = 0
    /\ monthly_payment = 0
    /\ balance = 0
    /\ month = 0
    /\ schedule = <<>>
    /\ total_interest = 0
    /\ carried = <<>>
    /\ df = <<>>
    /\ total_paid = 0
    /\ months = 0
    /\ value = 0
    /\ values = <<>>
    /\ equity = NoEquityMessage

Init ==
    /\ form \in Forms
    /\ pc = "form"
    /\ previous = NoPrevious
    /\ Cleared

\* Lines 145-146 and 10-19: the button calls the function, which computes
\* the payment or raises.
Call ==
    /\ pc = "form"
    /\ LET rate == MonthlyRate(form.annual_rate)
           adjusted == (principal + form.fees) * MU
       IN  IF DividesByZero(rate, nmonths)
           THEN /\ pc' = "ZeroDivisionError"
                /\ UNCHANGED locals
           ELSE /\ pc' = "loop"
                /\ monthly_rate' = rate
                /\ monthly_payment' =
                     WithExtra(BasePayment(adjusted - form.balloon_payment * MU,
                                           rate, nmonths),
                               form.extra_payment * MU)
                /\ balance' = adjusted
                /\ UNCHANGED <<month, schedule, total_interest, carried>>
    /\ UNCHANGED <<form, results, car, previous>>

\* Lines 21-38: one iteration of the loop.
Iterate ==
    /\ pc = "loop"
    /\ LET interest == Interest(balance, monthly_rate)
           principal_paid == PrincipalPaid(monthly_payment, interest, balance)
           newbal == balance - principal_paid
       IN  /\ month' = month + 1
           /\ balance' = newbal
           /\ total_interest' = total_interest + interest
           /\ schedule' = Append(schedule,
                 Row(month + 1, monthly_payment, principal_paid, interest, newbal))
           /\ carried' = Append(carried, newbal)
           /\ pc' = IF PaidOff(newbal) \/ month + 1 = nmonths
                    THEN "balloon" ELSE "loop"
    /\ UNCHANGED <<form, monthly_rate, monthly_payment, results, car, previous>>

\* Lines 40-55: the balloon row, if due, and the return.
Settle ==
    /\ pc = "balloon"
    /\ LET balloon == form.balloon_payment * MU
           rows == IF BalloonDue(balloon, balance)
                   THEN Append(schedule, BalloonRow(month, balloon, balance))
                   ELSE schedule
       IN  /\ IF BalloonDue(balloon, balance)
              THEN /\ balance' = balance - balloon
                   /\ month' = month + 1
                   /\ carried' = Append(carried, balance - balloon)
              ELSE UNCHANGED <<balance, month, carried>>
           /\ schedule' = rows
           /\ df' = rows
           /\ total_paid' = SumPayment(rows, 1, Len(rows))
           /\ months' = month'
    /\ pc' = "returned"
    /\ UNCHANGED <<form, monthly_rate, monthly_payment, total_interest, car, previous>>

\* Lines 162-163 and 59-61: a car loan's values are computed next.
CarValueCall ==
    /\ pc = "returned"
    /\ form.loan_type = "Car Loan"
    /\ value' = form.total_price * MU
    /\ pc' = "car"
    /\ UNCHANGED <<form, locals, results, values, equity, previous>>

\* Lines 62-64: one iteration of the depreciation loop.
Depreciate ==
    /\ pc = "car"
    /\ Len(values) < months
    /\ LET v == Depreciated(value, form.depreciation_rate)
       IN  /\ value' = v
           /\ values' = Append(values, Round2(v))
    /\ UNCHANGED <<form, pc, locals, results, equity, previous>>

\* Lines 164-176: the car columns and the negative-equity message.
DetectNegativeEquity ==
    /\ pc = "car"
    /\ Len(values) = months
    /\ df' = WithCarColumns(df, values)
    /\ equity' = EquityMessage(df')
    /\ pc' = "shown"
    /\ UNCHANGED <<form, locals, total_paid, months, value, values, previous>>

\* Lines 178-180: a home loan's chart.
ShowHomeLoan ==
    /\ pc = "returned"
    /\ form.loan_type # "Car Loan"
    /\ pc' = "shown"
    /\ UNCHANGED <<form, locals, results, car, previous>>

Resting == pc \in {"form", "shown", "ZeroDivisionError"}

\* A rerun of the script with the button not pressed shows the form alone.
Rerun(f, keep) ==
    /\ form' = f
    /\ pc' = "form"
    /\ previous' = IF ~keep THEN NoPrevious
                   ELSE IF pc = "shown"
                        THEN [shown |-> TRUE, extra_payment |-> form.extra_payment,
                              months |-> months, total_interest |-> total_interest]
                        ELSE previous
    /\ monthly_rate' = 0
    /\ monthly_payment' = 0
    /\ balance' = 0
    /\ month' = 0
    /\ schedule' = <<>>
    /\ total_interest' = 0
    /\ carried' = <<>>
    /\ df' = <<>>
    /\ total_paid' = 0
    /\ months' = 0
    /\ value' = 0
    /\ values' = <<>>
    /\ equity' = NoEquityMessage

\* Line 138: the extra payment widget.
EditExtraPayment ==
    /\ Resting
    /\ \E e \in ExtraPayments \ {form.extra_payment} :
          Rerun([form EXCEPT !.extra_payment = e], TRUE)

\* Lines 129, 140-141: the loan type; the balloon and depreciation widgets
\* exist for a car loan only, and start at their defaults.
SelectLoanType ==
    /\ Resting
    /\ \E t \in {"Car Loan", "Home Loan"} \ {form.loan_type} :
          Rerun([form EXCEPT !.loan_type = t,
                             !.balloon_payment = 0,
                             !.depreciation_rate = IF t = "Car Loan" THEN 15 ELSE 0],
                FALSE)

\* Lines 131-142: any other widget.
OtherWidgets ==
    {"total_price", "down_payment", "annual_rate", "years", "fees",
     "balloon_payment", "depreciation_rate"}

WidgetValues == [k \in OtherWidgets |-> {f[k] : f \in Forms}]

EditWidget ==
    /\ Resting
    /\ \E k \in OtherWidgets :
          \E v \in WidgetValues[k] \ {form[k]} :
             /\ [form EXCEPT ![k] = v] \in Forms
             /\ Rerun([form EXCEPT ![k] = v], FALSE)

Next ==
    \/ Call
    \/ Iterate
    \/ Settle
    \/ CarValueCall
    \/ Depreciate
    \/ DetectNegativeEquity
    \/ ShowHomeLoan
    \/ EditExtraPayment
    \/ SelectLoanType
    \/ EditWidget

Spec == Init /\ [][Next]_vars

\* =============================================================== claims
AdjustedPrincipal == principal + form.fees

\* The loan terms the claims call valid.
ValidTerms ==
    /\ form.years > 0
    /\ form.annual_rate >= 0
    /\ AdjustedPrincipal > 0
    /\ form.extra_payment >= 0
    /\ 0 <= form.balloon_payment
    /\ form.balloon_payment <= AdjustedPrincipal

\* While the run is in the loop or has just left it, `schedule` holds the
\* periodic rows and nothing else.
Periodic == pc \in {"loop", "balloon"}

\* The function has returned: df, total_paid and months are its result.
Returned == pc \in {"returned", "car", "shown"}

Cents(dollars) == 100 * dollars

RECURSIVE SumPrincipalPaid(_, _, _)
SumPrincipalPaid(s, i, j) ==
    IF i > j THEN 0
    ELSE IF i = j THEN s[i].PrincipalPaid
    ELSE SumPrincipalPaid(s, i, (i + j) \div 2)
         + SumPrincipalPaid(s, (i + j) \div 2 + 1, j)

\* C1 (as claimed): for valid terms the remaining balance of the periodic
\* rows never increases from one row to the next, and the first row's
\* balance is at most principal + fees.
C1_MonotonicPaydown ==
    (ValidTerms /\ Periodic) =>
        /\ \A i \in 1..(Len(schedule) - 1) :
              schedule[i + 1].RemainingBalance <= schedule[i].RemainingBalance
        /\ schedule # <<>> =>
              schedule[1].RemainingBalance <= Cents(AdjustedPrincipal)

\* C2 (as claimed): for valid terms with a positive rate, the principal paid
\* over all rows sums to principal + fees - balloon, within a cent per row.
C2_SumIsPrincipalLessBalloon ==
    (ValidTerms /\ form.annual_rate > 0 /\ Returned) =>
        Abs(SumPrincipalPaid(df, 1, Len(df))
            - Cents(AdjustedPrincipal - form.balloon_payment)) <= Len(df)

\* C2 (amended): for valid terms with a positive rate, the principal paid
\* over all rows sums to principal + fees less the last row's remaining
\* balance, within a cent per row; without a balloon payment that is
\* principal + fees itself.
C2_SumIsPrincipalLessRemaining ==
    (ValidTerms /\ form.annual_rate > 0 /\ Returned) =>
        /\ Abs(SumPrincipalPaid(df, 1, Len(df))
               - (Cents(AdjustedPrincipal) - df[Len(df)].RemainingBalance)) <= Len(df)
        /\ form.balloon_payment = 0 =>
              Abs(SumPrincipalPaid(df, 1, Len(df)) - Cents(AdjustedPrincipal)) <= Len(df)

\* A loan with a balloon payment, returned with its balloon row and money
\* still owed after it.
C2_Witness ==
    /\ ValidTerms /\ form.annual_rate > 0 /\ Returned
    /\ form.balloon_payment > 0
    /\ Len(df) = nmonths + 1
    /\ df[Len(df)].RemainingBalance > 0

\* C3 (as claimed): terms with years <= 0, a negative rate or
\* principal + fees <= 0 are rejected with an error before the loop: the run
\* never iterates and never returns rows.
C3_InvalidTermsRejected ==
    (form.years <= 0 \/ form.annual_rate < 0 \/ AdjustedPrincipal <= 0) =>
        /\ pc \in {"form", "ZeroDivisionError"}
        /\ schedule = <<>>
        /\ df = <<>>

\* Two results for valid terms that differ in the extra payment alone, the
\* one on the page for the larger extra payment.
Comparable ==
    /\ previous.shown
    /\ Returned
    /\ ValidTerms
    /\ previous.extra_payment < form.extra_payment

\* C4 (as claimed): a larger extra payment gives a strictly smaller payoff
\* month count, and no more total interest.
C4_StrictlyFewerMonths ==
    Comparable =>
        /\ months < previous.months
        /\ total_interest <= previous.total_interest

\* C4 (amended): a larger extra payment gives a payoff month count that is
\* not greater, and no more total interest.
C4_NoMoreMonths ==
    Comparable =>
        /\ months <= previous.months
        /\ total_interest <= previous.total_interest

\* A larger extra payment that did shorten the loan and save interest.
C4_Witness ==
    /\ Comparable
    /\ months < previous.months
    /\ total_interest < previous.total_interest

\* C5: when the loop is left with balloon_payment > 0 and balance > 0, exactly
\* one row is appended, at month + 1, with payment and principal paid the
\* balloon amount, interest 0, and the balance less the balloon amount as the
\* remaining balance, not clamped at zero; otherwise no row is appended.
C5_BalloonRow ==
    [][pc = "balloon" =>
         IF form.balloon_payment > 0 /\ balance > 0
         THEN /\ Len(df') = Len(schedule) + 1
              /\ SubSeq(df', 1, Len(schedule)) = schedule
              /\ df'[Len(df')] =
                    [Month |-> month + 1, Date |-> 30 * month,
                     Payment |-> Cents(form.balloon_payment),
                     PrincipalPaid |-> Cents(form.balloon_payment),
                     InterestPaid |-> 0,
                     RemainingBalance |-> Round2(balance - form.balloon_payment * MU)]
              /\ balance' = balance - form.balloon_payment * MU
              /\ months' = month + 1
         ELSE /\ df' = schedule
              /\ balance' = balance
              /\ months' = month]_vars

\* A returned schedule whose balloon row took the balance below zero.
C5_Witness ==
    /\ Returned
    /\ form.balloon_payment > 0
    /\ Len(carried) >= 2
    /\ carried[Len(carried) - 1] > 0
    /\ carried[Len(carried)] = carried[Len(carried) - 1] - form.balloon_payment * MU
    /\ df[Len(df)].RemainingBalance < 0

\* Valid terms with neither an extra nor a balloon payment.
LevelTerms ==
    ValidTerms /\ form.extra_payment = 0 /\ form.balloon_payment = 0

\* The spec's scenario: 19000 financed at 5.0% over 5 years.
IsScenario ==
    /\ principal = 19000 /\ form.annual_rate = 50 /\ form.years = 5
    /\ form.extra_payment = 0 /\ form.fees = 0 /\ form.balloon_payment = 0

FullTerm ==
    (LevelTerms /\ Returned) =>
        /\ Len(df) = nmonths
        /\ months = nmonths
        /\ df[Len(df)].RemainingBalance <= 1

\* C6 (as claimed): with neither an extra nor a balloon payment the schedule
\* has exactly years*12 rows and ends with at most 0.01 owed; the scenario
\* takes 60 months, with 79.17 interest and about 277.50 (here: within 0.50
\* of it) principal in the first row.
C6_ScenarioAsClaimed ==
    /\ FullTerm
    /\ (IsScenario /\ Returned) =>
          /\ months = 60
          /\ df[1].InterestPaid = 7917
          /\ Abs(df[1].PrincipalPaid - 27750) <= 50

\* C6 (amended): as claimed, except that the scenario's first row pays
\* 279.39 of principal.
C6_Scenario ==
    /\ FullTerm
    /\ (IsScenario /\ Returned) =>
          /\ months = 60
          /\ df[1].InterestPaid = 7917
          /\ df[1].PrincipalPaid = 27939

\* The scenario, returned.
C6_Witness == IsScenario /\ Returned /\ Len(df) = 60

\* C7: at rate 0 with no extra payment, fees or balloon payment, every row's
\* payment is principal / (years*12) to the nearest cent, its interest is 0,
\* and the total interest is exactly 0.
C7_ZeroRate ==
    (/\ form.annual_rate = 0 /\ form.extra_payment = 0 /\ form.fees = 0
     /\ form.balloon_payment = 0 /\ form.years > 0) =>
        /\ \A i \in 1..Len(schedule) :
              /\ 2 * Abs(schedule[i].Payment * nmonths - Cents(principal)) <= nmonths
              /\ schedule[i].InterestPaid = 0
        /\ total_interest = 0

\* An interest-free loan returned with all its rows.
C7_Witness ==
    /\ form.annual_rate = 0 /\ form.extra_payment = 0 /\ form.fees = 0
    /\ form.balloon_payment = 0 /\ principal > 0
    /\ Returned
    /\ Len(df) = nmonths
    /\ nmonths > 12

\* C8: the loop stops at the first month that leaves balance <= 0: while it
\* runs every row so far left balance > 0; when it is left, every row but the
\* last left balance > 0 and the last left balance <= 0 or was month
\* years*12; and there are never more than years*12 + 1 rows.
C8_StopsAtPayoff ==
    /\ pc = "loop" =>
          /\ \A i \in 1..Len(carried) : carried[i] > 0
          /\ Len(schedule) < nmonths
    /\ pc = "balloon" =>
          /\ \A i \in 1..(Len(carried) - 1) : carried[i] > 0
          /\ carried[Len(carried)] <= 0 \/ Len(schedule) = nmonths
          /\ Len(schedule) <= nmonths
    /\ Len(schedule) <= nmonths + 1
    /\ Len(df) <= nmonths + 1

\* A loop left before month years*12, after more than one row.
C8_Witness ==
    /\ pc = "balloon"
    /\ Len(schedule) > 1
    /\ Len(schedule) < nmonths
    /\ carried[Len(carried)] <= 0

Underwater(row) == row.RemainingBalance > row.EstimatedCarValue

BalanceBefore(s, i) ==
    IF i = 1 THEN Cents(AdjustedPrincipal) ELSE s[i - 1].RemainingBalance

\* C10: with principal + fees >= 0, every periodic row pays no more principal
\* than the balance before it and leaves balance >= 0; only the balloon row
\* can leave a negative remaining balance.
C10_NeverOverpaid ==
    AdjustedPrincipal >= 0 =>
        /\ Periodic =>
              \A i \in 1..Len(schedule) :
                 /\ carried[i] >= 0
                 /\ schedule[i].RemainingBalance >= 0
                 /\ schedule[i].PrincipalPaid <= BalanceBefore(schedule, i)
        /\ \A i \in 1..Len(schedule) :
              (carried[i] < 0 \/ schedule[i].RemainingBalance < 0) =>
                 /\ i = Len(schedule)
                 /\ Returned
                 /\ i = months
                 /\ form.balloon_payment > 0
                 /\ schedule[i].PrincipalPaid = Cents(form.balloon_payment)
                 /\ schedule[i].InterestPaid = 0

\* A last periodic payment cut down to the balance that was left.
C10_Witness ==
    /\ pc = "balloon"
    /\ AdjustedPrincipal > 0
    /\ Len(schedule) > 1
    /\ carried[Len(carried)] = 0
    /\ schedule[Len(schedule)].PrincipalPaid
          < schedule[Len(schedule)].Payment - schedule[Len(schedule)].InterestPaid
====
